---- MODULE Spec2Model ----
(***************************************************************************)
(* Model of the RFQ draft-order relay (src/server.js, the deploy-ready     *)
(* variant at lines 320-768): the App Proxy signature verifier, the        *)
(* customer resolver and the handler of POST /proxy/create-draft-order.    *)
(*                                                                         *)
(* Strings are sequences of atoms.  An atom is a triple:                   *)
(*   <<"chr", t, <<>>>>  the literal text t (one or more characters),      *)
(*   <<"hex", k, m>>     the 64 lowercase hex characters of                *)
(*                       HMAC-SHA256(key k, message m).                    *)
(* The atom texts used below form a uniquely decodable code (no text is a  *)
(* concatenation of others and none is a proper prefix that another atom   *)
(* could complete), so two atom sequences are equal exactly when the       *)
(* JavaScript strings they spell are equal.  Two "hex" atoms are equal     *)
(* exactly when key and message are equal: the keyed digest is treated as  *)
(* injective.                                                              *)
(***************************************************************************)
EXTENDS Integers, Sequences, FiniteSets, TLC

Chr(t) == <<"chr", t, <<>>>>

Str(ts) == [i \in 1..Len(ts) |-> Chr(ts[i])]

\* Number of UTF-8 bytes of each literal text (all texts are ASCII).
TextLen(t) ==
  CASE t = "signature"           -> 9
    [] t = "hmac"                -> 4
    [] t = "path_prefix"         -> 11
    [] t = "shop"                -> 4
    [] t = "apps"                -> 4
    [] t = "rfq"                 -> 3
    [] t = "alt"                 -> 3
    [] t = "%2F"                 -> 3
    [] t = "%3F"                 -> 3
    [] t = "%zz"                 -> 3
    [] t = "/proxy"              -> 6
    [] t = "/create-draft-order" -> 19
    [] OTHER                     -> 1

\* crypto.createHmac("sha256", secret).update(message, "utf8").digest("hex")
HmacSha256Hex(secret, message) == << <<"hex", secret, message>> >>

HexDigestLen == 64

AtomLen(a) == IF a[1] = "hex" THEN HexDigestLen ELSE TextLen(a[2])

RECURSIVE ByteLen(_)
\* Buffer.from(s, "utf8").length
ByteLen(s) == IF s = <<>> THEN 0 ELSE AtomLen(Head(s)) + ByteLen(Tail(s))

\* String.prototype.indexOf for a one-character needle; 0 stands for -1
\* (positions are 1-based here).
IndexOf(s, a) ==
  IF \E i \in 1..Len(s) : s[i] = a
  THEN CHOOSE i \in 1..Len(s) : s[i] = a /\ \A j \in 1..(i - 1) : s[j] # a
  ELSE 0

\* String.prototype.startsWith
StartsWith(s, p) == Len(s) >= Len(p) /\ SubSeq(s, 1, Len(p)) = p

\* String.prototype.slice(n): drop the first n atoms.
Slice(s, n) == SubSeq(s, n + 1, Len(s))

RECURSIVE Split(_, _)
\* String.prototype.split on a one-character separator.
Split(s, sep) ==
  LET i == IndexOf(s, sep)
  IN  IF i = 0 THEN <<s>>
      ELSE <<SubSeq(s, 1, i - 1)>> \o Split(Slice(s, i), sep)

RECURSIVE Join(_, _)
\* Array.prototype.join
Join(frags, sep) ==
  IF frags = <<>> THEN <<>>
  ELSE IF Len(frags) = 1 THEN frags[1]
  ELSE frags[1] \o <<sep>> \o Join(Tail(frags), sep)

Amp == Chr("&")
QMark == Chr("?")
EqSign == Chr("=")

(***************************************************************************)
(* Configuration (server.js 343-348).                                      *)
(***************************************************************************)
MOUNT_PREFIX == Str(<<"/proxy">>)

PROXY_PREFIX == Str(<<"apps">>)

PROXY_SUBPATH == Str(<<"rfq">>)

\* `/${PROXY_PREFIX}/${PROXY_SUBPATH}`
DefaultPathPrefix == Str(<<"/">>) \o PROXY_PREFIX \o Str(<<"/">>) \o PROXY_SUBPATH

(***************************************************************************)
(* decodeURIComponent: every well-formed escape is replaced by the         *)
(* character it encodes; a malformed escape ("%zz") makes it throw         *)
(* URIError.  The result is [threw, value].                                *)
(***************************************************************************)
DecodeAtom(a) ==
  IF a = Chr("%2F") THEN Chr("/")
  ELSE IF a = Chr("%3F") THEN Chr("?")
  ELSE a

decodeURIComponent(s) ==
  IF \E i \in 1..Len(s) : s[i] = Chr("%zz")
  THEN [threw |-> TRUE, value |-> <<>>]
  ELSE [threw |-> FALSE, value |-> [i \in 1..Len(s) |-> DecodeAtom(s[i])]]

(***************************************************************************)
(* verifyProxySignature (server.js 401-489), local by local.               *)
(***************************************************************************)
\* const originalUrl = req.originalUrl || req.url || "/";
originalUrlOf(url) == IF url = <<>> THEN Str(<<"/">>) ELSE url

\* rawPath / rawQuery: cut at the first "?"
rawPathOf(originalUrl) ==
  LET qmark == IndexOf(originalUrl, QMark)
  IN  IF qmark = 0 THEN originalUrl ELSE SubSeq(originalUrl, 1, qmark - 1)

rawQueryOf(originalUrl) ==
  LET qmark == IndexOf(originalUrl, QMark)
  IN  IF qmark = 0 THEN <<>> ELSE Slice(originalUrl, qmark)

SigPrefix == Str(<<"signature", "=">>)

HmacPrefix == Str(<<"hmac", "=">>)

\* Variant: the value of a signature= fragment is preferred wherever it
\* stands, and an hmac= fragment is read only when there is none
\* (params.get("signature") || params.get("hmac"), server.js 46-47).
ScanSignature_PreferSignature(kvs) ==
  LET sig == { i \in 1..Len(kvs) : StartsWith(kvs[i], SigPrefix) }
      mac == { i \in 1..Len(kvs) : StartsWith(kvs[i], HmacPrefix) }
      first(S) == CHOOSE i \in S : \A j \in S : i <= j
  IN  IF sig # {} /\ Slice(kvs[first(sig)], Len(SigPrefix)) # <<>>
      THEN Slice(kvs[first(sig)], Len(SigPrefix))
      ELSE IF mac # {} THEN Slice(kvs[first(mac)], Len(HmacPrefix))
      ELSE <<>>

\* Variant: the loop has no break, and the last fragment that starts with
\* signature= or hmac= gives the value.
ScanSignature_LastWins(kvs) ==
  LET idx  == { i \in 1..Len(kvs) :
                  StartsWith(kvs[i], SigPrefix) \/ StartsWith(kvs[i], HmacPrefix) }
      last == CHOOSE i \in idx : \A j \in idx : j <= i
  IN  IF idx = {} THEN <<>>
      ELSE IF StartsWith(kvs[last], SigPrefix) THEN Slice(kvs[last], Len(SigPrefix))
      ELSE Slice(kvs[last], Len(HmacPrefix))

RECURSIVE ScanSignature(_)
\* The for-loop of lines 418-421 over the fragments still to visit: the
\* first fragment that starts with signature= or hmac= ends the loop.
ScanSignature(kvs) ==
  IF kvs = <<>> THEN <<>>
  ELSE IF StartsWith(Head(kvs), SigPrefix) THEN Slice(Head(kvs), Len(SigPrefix))
  ELSE IF StartsWith(Head(kvs), HmacPrefix) THEN Slice(Head(kvs), Len(HmacPrefix))
  ELSE ScanSignature(Tail(kvs))

providedSignatureOf(rawQuery) ==
  IF rawQuery = <<>> THEN <<>> ELSE ScanSignature(Split(rawQuery, Amp))

\* Remove our own mount prefix from the path
serverPathnameOf(rawPath) ==
  IF StartsWith(rawPath, MOUNT_PREFIX) THEN Slice(rawPath, Len(MOUNT_PREFIX))
  ELSE rawPath

RECURSIVE ScanPathPrefix_NoDecode(_)
\* Variant: the raw value of path_prefix is used without percent-decoding.
ScanPathPrefix_NoDecode(kvs) ==
  IF kvs = <<>> THEN <<>>
  ELSE LET kv  == Head(kvs)
           eq  == IndexOf(kv, EqSign)
           key == IF eq = 0 THEN kv ELSE SubSeq(kv, 1, eq - 1)
           val == IF eq = 0 THEN <<>> ELSE Slice(kv, eq)
       IN  IF key = Str(<<"path_prefix">>) THEN val
           ELSE ScanPathPrefix_NoDecode(Tail(kvs))

RECURSIVE ScanPathPrefix(_)
\* The for-loop of lines 436-445: the first fragment whose key is exactly
\* path_prefix ends the loop, whatever its value.
ScanPathPrefix(kvs) ==
  IF kvs = <<>> THEN <<>>
  ELSE LET kv  == Head(kvs)
           eq  == IndexOf(kv, EqSign)
           key == IF eq = 0 THEN kv ELSE SubSeq(kv, 1, eq - 1)
           val == IF eq = 0 THEN <<>> ELSE Slice(kv, eq)
           dec == decodeURIComponent(val)
       IN  IF key = Str(<<"path_prefix">>)
           THEN IF dec.threw THEN val ELSE dec.value
           ELSE ScanPathPrefix(Tail(kvs))

decodedPathPrefixOf(rawQuery) ==
  LET found == IF rawQuery = <<>> THEN <<>>
               ELSE ScanPathPrefix(Split(rawQuery, Amp))
  IN  IF found = <<>> THEN DefaultPathPrefix ELSE found

storefrontPathOf(rawPath, rawQuery) ==
  decodedPathPrefixOf(rawQuery) \o serverPathnameOf(rawPath)

\* Variant: only signature= and empty fragments are dropped.
Dropped_SignatureOnly(kv) == StartsWith(kv, SigPrefix) \/ kv = <<>>

\* if (kv.startsWith("signature=") || kv.startsWith("hmac=") || kv === "") continue;
Dropped(kv) ==
  StartsWith(kv, SigPrefix) \/ StartsWith(kv, HmacPrefix) \/ kv = <<>>

\* Variant: the query is cut at the first signature= or hmac= fragment, as
\* if the platform always appended it last.
keptQueryOf_CutAtSignature(rawQuery) ==
  IF rawQuery = <<>> THEN <<>>
  ELSE LET kvs == Split(rawQuery, Amp)
           sig == { i \in 1..Len(kvs) :
                      StartsWith(kvs[i], SigPrefix) \/ StartsWith(kvs[i], HmacPrefix) }
           cut == IF sig = {} THEN Len(kvs)
                  ELSE (CHOOSE i \in sig : \A j \in sig : i <= j) - 1
       IN  Join(SelectSeq(SubSeq(kvs, 1, cut), LAMBDA kv : kv # <<>>), Amp)

\* Alphabetical rank of the key of a fragment, for the keys of the inputs.
KeyRank(kv) ==
  IF kv = <<>> THEN 0
  ELSE IF kv[1] = Chr("path_prefix") THEN 1
  ELSE IF kv[1] = Chr("shop") THEN 2
  ELSE 3

\* Variant: the remaining parameters are sorted by key before hashing
\* (the earlier verifier, server.js 65-76).
keptQueryOf_Sorted(rawQuery) ==
  IF rawQuery = <<>> THEN <<>>
  ELSE Join(SortSeq(SelectSeq(Split(rawQuery, Amp),
                              LAMBDA kv : ~(StartsWith(kv, SigPrefix)
                                            \/ StartsWith(kv, HmacPrefix)
                                            \/ kv = <<>>)),
                    LAMBDA a, b : KeyRank(a) < KeyRank(b)), Amp)

keptQueryOf(rawQuery) ==
  IF rawQuery = <<>> THEN <<>>
  ELSE Join(SelectSeq(Split(rawQuery, Amp), LAMBDA kv : ~Dropped(kv)), Amp)

messageOf(rawPath, rawQuery) ==
  LET storefrontPath == storefrontPathOf(rawPath, rawQuery)
      keptQuery      == keptQueryOf(rawQuery)
  IN  IF keptQuery # <<>> THEN storefrontPath \o <<QMark>> \o keptQuery
      ELSE storefrontPath

\* crypto.timingSafeEqual throws RangeError on buffers of different length.
timingSafeEqual(a, b) ==
  IF ByteLen(a) # ByteLen(b) THEN [threw |-> TRUE, value |-> FALSE]
  ELSE [threw |-> FALSE, value |-> (a = b)]

\* Variant: only the lengths are compared.
SignatureOk_LengthOnly(providedSignature, digest) ==
  [threw |-> FALSE, value |-> (ByteLen(providedSignature) = ByteLen(digest))]

\* const ok = sigBuf.length === digBuf.length && crypto.timingSafeEqual(digBuf, sigBuf);
SignatureOk(providedSignature, digest) ==
  IF ByteLen(providedSignature) = ByteLen(digest)
  THEN timingSafeEqual(digest, providedSignature)
  ELSE [threw |-> FALSE, value |-> FALSE]

\* What a call leaves behind when it returns before reaching a local.
NotComputed == <<>>

\* The body of the try block.  The result names the return statement taken
\* (stage), whether an exception escaped the body (threw), the value
\* returned (value) and the locals computed on the way.
VerifyTry(url, secret) ==
  LET originalUrl       == originalUrlOf(url)
      rawPath           == rawPathOf(originalUrl)
      rawQuery          == rawQueryOf(originalUrl)
      providedSignature == providedSignatureOf(rawQuery)
      storefrontPath    == storefrontPathOf(rawPath, rawQuery)
      keptQuery         == keptQueryOf(rawQuery)
      message           == messageOf(rawPath, rawQuery)
      digest            == HmacSha256Hex(secret, message)
      ok                == SignatureOk(providedSignature, digest)
      early(stage, sig) ==
        [threw |-> FALSE, value |-> FALSE, stage |-> stage,
         providedSignature |-> sig, storefrontPath |-> NotComputed,
         keptQuery |-> NotComputed, message |-> NotComputed,
         digest |-> NotComputed]
  IN  IF secret = "" THEN early("no-secret", NotComputed)
      ELSE IF providedSignature = <<>> THEN early("no-signature", providedSignature)
      ELSE [threw |-> ok.threw, value |-> ok.value, stage |-> "compared",
            providedSignature |-> providedSignature,
            storefrontPath |-> storefrontPath, keptQuery |-> keptQuery,
            message |-> message, digest |-> digest]

\* try { ... } catch (e) { DBG("verify error:", e); return false; }
verifyProxySignature(url, secret) ==
  LET r == VerifyTry(url, secret)
  IN  IF r.threw THEN [r EXCEPT !.threw = FALSE, !.value = FALSE, !.stage = "caught"]
      ELSE r

(***************************************************************************)
(* Inputs of the verifier: paths, fragments and secrets.                   *)
(***************************************************************************)
MaxFrags == 3

RouteSuffix == Str(<<"/create-draft-order">>)

AltMount == Str(<<"/", "alt">>)

Paths == { MOUNT_PREFIX \o RouteSuffix, RouteSuffix }

Secrets == { "", "k1" }

\* What the platform hashes for a storefront request: the storefront path,
\* then "?" and the parameters it forwards, in the order it forwards them.
PlatformMessage(mount, suffix, params) ==
  mount \o suffix \o (IF params = <<>> THEN <<>> ELSE <<QMark>> \o Join(params, Amp))

ShopX == Str(<<"shop", "=", "x">>)

ShopY == Str(<<"shop", "=", "y">>)

PrefixEncoded == Str(<<"path_prefix", "=", "%2F", "alt">>)

PrefixPlain == Str(<<"path_prefix", "=", "/", "alt">>)

PrefixMalformed == Str(<<"path_prefix", "=", "%zz">>)

PrefixEmpty == Str(<<"path_prefix", "=">>)

\* A mount path that spells a storefront path, "?" and a parameter, and a
\* parameter that spells a route, "?" and that path_prefix pair.
PrefixLong == Str(<<"path_prefix", "=">>) \o DefaultPathPrefix \o RouteSuffix \o Str(<<"?", "x">>)

ParamLong == Str(<<"x">>) \o RouteSuffix \o <<QMark>> \o PrefixLong

BaseFragments ==
  { ShopX, ShopY, PrefixEncoded, PrefixPlain, PrefixMalformed, PrefixEmpty,
    PrefixLong, ParamLong, <<>> }

\* Digests the platform has issued under the key k1.
SignedFull == HmacSha256Hex("k1", PlatformMessage(AltMount, RouteSuffix, <<PrefixEncoded, ShopX>>))

SignedBare == HmacSha256Hex("k1", PlatformMessage(DefaultPathPrefix, RouteSuffix, <<>>))

SignedLong == HmacSha256Hex("k1", PlatformMessage(DefaultPathPrefix, RouteSuffix, <<ParamLong>>))

ShortValue == Str(<<"x">>)

SignatureFragments ==
  { SigPrefix \o v :
      v \in { <<>>, ShortValue, SignedFull, SignedBare, SignedLong } }

HmacFragments == { HmacPrefix \o SignedBare }

Fragments == BaseFragments \cup SignatureFragments \cup HmacFragments

FragmentLists == UNION { [1..n -> Fragments] : n \in 0..MaxFrags }

\* The URL of the business route with the given query fragments.
UrlOfRoute(frags) == MOUNT_PREFIX \o RouteSuffix \o <<QMark>> \o Join(frags, Amp)

Urls ==
  Paths \cup { p \o <<QMark>> \o Join(fs, Amp) : p \in Paths, fs \in FragmentLists }

(***************************************************************************)
(* The handler of POST /proxy/create-draft-order (server.js 605-740), the  *)
(* customer resolver (567-591) and the admin system they call.             *)
(***************************************************************************)
MaxRequests == 2

Reqs == 1..MaxRequests

\* SHOPIFY_API_SECRET is in REQUIRED (330-341): the process exits at boot
\* when it is empty.
ServerSecret == "k1"

\* Values of process.env.ALLOW_UNVERIFIED_PROXY; "unset" is the variable
\* not being set.
EnvValues == { "unset", "1", "0", "true" }

\* Variant: any non-empty value of the variable enables the bypass.
ALLOW_UNVERIFIED_Truthy(env) == env # "unset"

\* const ALLOW_UNVERIFIED = process.env.ALLOW_UNVERIFIED_PROXY === "1";
ALLOW_UNVERIFIED(env) == env = "1"

\* URLs the route receives: as signed by the platform, and with the shop
\* altered after signing.
UrlSigned ==
  UrlOfRoute(<<PrefixEncoded, ShopX, SigPrefix \o SignedFull>>)

UrlTampered ==
  UrlOfRoute(<<PrefixEncoded, ShopY, SigPrefix \o SignedFull>>)

\* The signed URL with the parameter that asks for the verbose response.
VerboseOne == Str(<<"verbose", "=", "1">>)

SignedVerbose ==
  HmacSha256Hex("k1", PlatformMessage(AltMount, RouteSuffix, <<PrefixEncoded, ShopX, VerboseOne>>))

UrlVerbose ==
  UrlOfRoute(<<PrefixEncoded, ShopX, VerboseOne, SigPrefix \o SignedVerbose>>)

HandlerUrls == { UrlSigned, UrlTampered }

\* req.body.line_items: missing, [], a non-empty array, or not an array.
LineItemsValues == { "absent", "empty", "items", "not-array" }

\* customer.email: "" stands for a missing or empty email.
Emails == { "", "e1" }

\* req.body.customer and req.body.shipping: both objects or missing (the
\* destructuring defaults apply to a missing one), or one of them null.
BodyShapes == { "objects", "customer-null", "shipping-null" }

\* if (!ALLOW_UNVERIFIED) { const ok = verifyProxySignature(req); ... }
\* "not-run" when the bypass skips the call, else the outcome of the call.
VerifyGate(url, env) ==
  IF ~ALLOW_UNVERIFIED(env)
  THEN IF verifyProxySignature(url, ServerSecret).value THEN "passed" ELSE "failed"
  ELSE "not-run"

\* !Array.isArray(line_items) || line_items.length === 0, after the default
\* line_items = [] of the destructuring.
NoLineItems(line_items) == line_items \in { "absent", "empty", "not-array" }

\* Variant: a failed verification is logged but the handler goes on.
EarlyStatus_No401(gate, line_items) ==
  IF NoLineItems(line_items) THEN 400 ELSE 0

\* Variant: the line items are checked before the verification outcome.
EarlyStatus_LineItemsFirst(gate, line_items) ==
  IF NoLineItems(line_items) THEN 400
  ELSE IF gate = "failed" THEN 401
  ELSE 0

\* The response the synchronous part of the handler sends, 0 when it sends
\* none and goes on to resolve the customer (611-633).
EarlyStatus(gate, line_items) ==
  IF gate = "failed" THEN 401
  ELSE IF NoLineItems(line_items) THEN 400
  ELSE 0

EarlyError(status) ==
  IF status = 401 THEN "Invalid HMAC"
  ELSE IF status = 400 THEN "No line items"
  ELSE ""

\* Variant: findOrCreateCustomer is not awaited, and the draft-order create
\* goes out at once.
FirstCustomerCall_NoAwait(email) == "draft"

\* findOrCreateCustomer up to its first await: the search when cust.email
\* is truthy, else the create (568-576).
FirstCustomerCall(email) == IF email # "" THEN "search" ELSE "create"

\* id = r.customers?.[0]?.id || null; 0 stands for null.
FirstMatchId(result) == IF result = <<>> THEN 0 ELSE result[1]

\* Variant: the create is issued whatever the search found.
NeedsCreate_Always(id) == TRUE

\* if (!id) { ... create ... }
NeedsCreate(id) == id = 0

\* process.env.SHOP, the store domain.
SHOP == "store.myshopify.com"

\* What the admin system answers a draft-order create it accepts: the draft
\* order with its id and invoice URL, the draft order without an invoice
\* URL, or a body without a draft-order id.  0 and "" stand for a missing
\* (or falsy) field.
DraftResponses(id) ==
  { [ok |-> TRUE, id |-> id, invoice_url |-> "invoice"],
    [ok |-> TRUE, id |-> id, invoice_url |-> ""],
    [ok |-> TRUE, id |-> 0, invoice_url |-> ""] }

\* No answer to a draft-order create yet, or a non-success status.
NoDraftResponse == [ok |-> FALSE, id |-> 0, invoice_url |-> ""]

\* Variant: the response is sent without looking at the id.
DraftIdMissing_Never(out) == FALSE

\* if (!id) throw new Error("No draft order id returned");
DraftIdMissing(out) == out.id = 0

\* `https://${process.env.SHOP}/admin/draft_orders/${id}`
AdminUrl(id) == <<"https://", SHOP, "/admin/draft_orders/", id>>

\* const invoice = out?.draft_order?.invoice_url || null; "" stands for null.
InvoiceOf(out) == out.invoice_url

\* req.query.verbose === "1": the query has one verbose parameter, "1".
VerboseOf(url) ==
  LET q   == rawQueryOf(originalUrlOf(url))
      kvs == IF q = <<>> THEN <<>> ELSE Split(q, Amp)
      idx == { i \in 1..Len(kvs) : Len(kvs[i]) >= 1 /\ kvs[i][1] = Chr("verbose") }
  IN  idx # {} /\ \A i \in idx : kvs[i] = VerboseOne

VARIABLES vUrl, vSecret, vpc, vOut, envAllow, req, customers, drafts,
          envDebug, envCors, http, log, aIn, aOut, apc

vars == <<vUrl, vSecret, vpc, vOut, envAllow, req, customers, drafts,
          envDebug, envCors, http, log, aIn, aOut, apc>>

assembleVars == <<aIn, aOut, apc>>

verifierVars == <<vUrl, vSecret, vpc, vOut>>

routeVars == <<envDebug, envCors, http, log>>

serverVars ==
  <<envAllow, req, customers, drafts, envDebug, envCors, http, log, aIn, aOut, apc>>

NoCall == [threw |-> FALSE, value |-> FALSE, stage |-> "not-called",
           providedSignature |-> NotComputed, storefrontPath |-> NotComputed,
           keptQuery |-> NotComputed, message |-> NotComputed,
           digest |-> NotComputed]

\* A request that has not arrived yet.
IdleReq ==
  [pc |-> "idle", url |-> <<>>, line_items |-> "absent", email |-> "",
   verify |-> "not-run", status |-> 0, error |-> "", calls |-> <<>>,
   result |-> <<>>, found |-> 0, created |-> 0, customerId |-> 0,
   reference |-> 0, out |-> NoDraftResponse,
   admin_url |-> <<>>, invoice_url |-> "", draft_order_id |-> 0,
   thrown |-> "", shape |-> "objects"]

\* No HTTP exchange yet.
IdleHttp ==
  [pc |-> "idle", method |-> "", url |-> <<>>, handler |-> "", status |-> 0,
   body |-> <<>>]

\* DEBUG_PROXY and CORS_ALLOW_ORIGINS unset, nothing received, nothing logged.
RouteIdle ==
  /\ envDebug = "unset"
  /\ envCors = "unset"
  /\ http = IdleHttp
  /\ log = {}

\* No payload is being assembled.
AssembleIdle ==
  /\ aIn = <<>>
  /\ aOut = <<>>
  /\ apc = "off"

ServerIdle ==
  /\ req = [r \in Reqs |-> IdleReq]
  /\ customers = <<>>
  /\ drafts = <<>>
  /\ RouteIdle
  /\ AssembleIdle

InitVerify ==
  /\ vUrl \in Urls
  /\ vSecret \in Secrets
  /\ vpc = "called"
  /\ vOut = NoCall
  /\ envAllow = "unset"
  /\ ServerIdle

\* One call of verifyProxySignature(req) with SHOPIFY_API_SECRET = vSecret:
\* vOut is what the call returned (value), whether it threw, and its locals.
VerifyCall ==
  /\ vpc = "called"
  /\ vpc' = "returned"
  /\ vOut' = verifyProxySignature(vUrl, vSecret)
  /\ UNCHANGED <<vUrl, vSecret>>
  /\ UNCHANGED serverVars

NextVerify == VerifyCall

SpecVerify == InitVerify /\ [][NextVerify]_vars

\* The admin system starts with no customer, or with one for e2 followed
\* by two for e1.
InitialCustomers ==
  { <<>>,
    <<[id |-> 1, email |-> "e2"], [id |-> 2, email |-> "e1"], [id |-> 3, email |-> "e1"]>> }

Init ==
  /\ vUrl = <<>>
  /\ vSecret = ""
  /\ vpc = "off"
  /\ vOut = NoCall
  /\ envAllow \in EnvValues
  /\ req = [r \in Reqs |-> IdleReq]
  /\ customers \in InitialCustomers
  /\ drafts = <<>>
  /\ RouteIdle
  /\ AssembleIdle

\* The ids of the customers the search for an email returns, in store order.
SearchResult(email) ==
  LET hits == SelectSeq(customers, LAMBDA c : c.email = email)
  IN  [i \in 1..Len(hits) |-> hits[i].id]

\* Variant: the catch answers with a fixed text instead of the message.
Fail500_Generic(rec, message) ==
  [rec EXCEPT !.pc = "done", !.status = 500, !.error = "Internal Server Error"]

\* Variant: the catch logs the error and sends nothing.
Fail500_NoResponse(rec, message) ==
  [rec EXCEPT !.pc = "done", !.error = message]

\* The catch of the handler: res.status(500).json({ error: e.message }).
Fail500(rec, message) ==
  [rec EXCEPT !.pc = "done", !.status = 500, !.error = message]

\* An error with the given message is thrown inside the try block, at or
\* after an await: control passes to the catch.
Throw(rec, message) == Fail500([rec EXCEPT !.thrown = message], message)

\* Lines 637-717 once the customer id is known: the payload is assembled
\* and the draft-order create is issued; shipping.address1 (673) throws
\* TypeError when shipping is null.
SubmitDraft(rec, id) ==
  IF rec.shape = "shipping-null"
  THEN Throw([rec EXCEPT !.customerId = id], "TypeError")
  ELSE [rec EXCEPT !.pc = "draft", !.customerId = id, !.calls = Append(@, "draft")]

\* The handler from its entry to its first await or early response
\* (606-635), for a request with the given URL and body.
\* cust.email (569) throws TypeError when customer is null, before any call.
Handle(url, li, email, shape) ==
  LET gate   == VerifyGate(url, envAllow)
      status == EarlyStatus(gate, li)
      rec    == [IdleReq EXCEPT !.url = url, !.line_items = li,
                                !.email = email, !.verify = gate,
                                !.shape = shape]
  IN  IF status # 0
      THEN [rec EXCEPT !.pc = "done", !.status = status,
                       !.error = EarlyError(status)]
      ELSE IF shape = "customer-null" THEN Throw(rec, "TypeError")
      ELSE [rec EXCEPT !.pc = FirstCustomerCall(email),
                       !.calls = <<FirstCustomerCall(email)>>]

\* A POST arrives, with a body whose customer and shipping are objects, and
\* the handler runs to its first await or response.
Post(r) ==
  /\ req[r].pc = "idle"
  /\ \A q \in 1..(r - 1) : req[q].pc # "idle"
  /\ \E url \in HandlerUrls, li \in LineItemsValues, email \in Emails :
       req' = [req EXCEPT ![r] = Handle(url, li, email, "objects")]
  /\ UNCHANGED <<envAllow, customers, drafts>>
  /\ UNCHANGED verifierVars
  /\ UNCHANGED routeVars
  /\ UNCHANGED assembleVars

\* The customer search answers with a success status.
SearchOk(r) ==
  /\ req[r].pc = "search"
  /\ LET result == SearchResult(req[r].email)
         id     == FirstMatchId(result)
         rec    == [req[r] EXCEPT !.result = result, !.found = id]
     IN  req' = [req EXCEPT ![r] =
                   IF NeedsCreate(id)
                   THEN [rec EXCEPT !.pc = "create", !.calls = Append(@, "create")]
                   ELSE SubmitDraft(rec, id)]
  /\ UNCHANGED <<envAllow, customers, drafts>>
  /\ UNCHANGED verifierVars
  /\ UNCHANGED routeVars
  /\ UNCHANGED assembleVars

\* The customer search fails: adminFetch throws `${res.status} ${text}`.
SearchFail(r) ==
  /\ req[r].pc = "search"
  /\ req' = [req EXCEPT ![r] = Throw(@, "upstream status")]
  /\ UNCHANGED <<envAllow, customers, drafts>>
  /\ UNCHANGED verifierVars
  /\ UNCHANGED routeVars
  /\ UNCHANGED assembleVars

\* Variant: the create answers with the customer already held for the
\* email, when there is one.
CreatedCustomer_Existing(email) ==
  IF \E i \in 1..Len(customers) : customers[i].email = email /\ email # ""
  THEN customers[CHOOSE i \in 1..Len(customers) : customers[i].email = email]
  ELSE [id |-> Len(customers) + 1, email |-> email]

\* The customer of the answer to POST /customers.json (577-590): a new
\* record with an id of its own; the call carries the email and nothing
\* that would tie it to an earlier record.
CreatedCustomer(email) == [id |-> Len(customers) + 1, email |-> email]

\* The customer create answers with the new customer.
CreateOk(r) ==
  /\ req[r].pc = "create"
  /\ LET c == CreatedCustomer(req[r].email)
     IN  /\ customers' = Append(customers, c)
         /\ req' = [req EXCEPT ![r] = SubmitDraft([@ EXCEPT !.created = c.id], c.id)]
  /\ UNCHANGED <<envAllow, drafts>>
  /\ UNCHANGED verifierVars
  /\ UNCHANGED routeVars
  /\ UNCHANGED assembleVars

\* The customer create fails, or its body holds no customer (c.customer.id
\* throws TypeError).
CreateFail(r) ==
  /\ req[r].pc = "create"
  /\ \E message \in { "upstream status", "TypeError" } :
       req' = [req EXCEPT ![r] = Throw(@, message)]
  /\ UNCHANGED <<envAllow, customers, drafts>>
  /\ UNCHANGED verifierVars
  /\ UNCHANGED routeVars
  /\ UNCHANGED assembleVars

\* Lines 719-735: the response to a draft-order create that answered `out`.
\* draft_order_id is part of the body only when verbose is asked for.
Respond(rec, out) ==
  IF DraftIdMissing(out)
  THEN Throw([rec EXCEPT !.out = out], "No draft order id returned")
  ELSE [rec EXCEPT !.pc = "done", !.status = 200, !.out = out,
                   !.reference = out.id,
                   !.admin_url = AdminUrl(out.id),
                   !.invoice_url = InvoiceOf(out),
                   !.draft_order_id = IF VerboseOf(rec.url) THEN out.id ELSE 0]

\* The draft-order create answers with a success status: the admin system
\* has stored the draft order when its answer carries the id.
DraftOk(r) ==
  /\ req[r].pc = "draft"
  /\ \E out \in DraftResponses(Len(drafts) + 1) :
       /\ drafts' = IF out.id # 0
                    THEN Append(drafts, [id |-> out.id, customer |-> req[r].customerId, by |-> r])
                    ELSE drafts
       /\ req' = [req EXCEPT ![r] = Respond(@, out)]
  /\ UNCHANGED <<envAllow, customers>>
  /\ UNCHANGED verifierVars
  /\ UNCHANGED routeVars
  /\ UNCHANGED assembleVars

\* The draft-order create answers with a non-success status.
DraftFail(r) ==
  /\ req[r].pc = "draft"
  /\ req' = [req EXCEPT ![r] = Throw(@, "upstream status")]
  /\ UNCHANGED <<envAllow, customers, drafts>>
  /\ UNCHANGED verifierVars
  /\ UNCHANGED routeVars
  /\ UNCHANGED assembleVars

Next ==
  \E r \in Reqs :
    \/ Post(r)
    \/ SearchOk(r)
    \/ SearchFail(r)
    \/ CreateOk(r)
    \/ CreateFail(r)
    \/ DraftOk(r)
    \/ DraftFail(r)

Spec == Init /\ [][Next]_vars

\* The call the request is awaiting is answered: the fetch of adminFetch
\* resolves with a success status, or adminFetch throws (549-565).
UpstreamAnswers(r) ==
  \/ SearchOk(r)
  \/ SearchFail(r)
  \/ CreateOk(r)
  \/ CreateFail(r)
  \/ DraftOk(r)
  \/ DraftFail(r)

\* The server under the assumption that every call it awaits is answered
\* in the end; nothing obliges a request to arrive.
SpecLive == Init /\ [][Next]_vars /\ \A r \in Reqs : WF_vars(UpstreamAnswers(r))

(***************************************************************************)
(* The routes of the application (server.js 365-396, 491-544, 597-605,     *)
(* 745-747): one HTTP exchange, of any method and path, through the        *)
(* middleware and the routes in the order they are registered.             *)
(***************************************************************************)
Methods == { "GET", "HEAD", "POST", "OPTIONS", "PUT", "DELETE", "PATCH" }

\* Values of process.env.DEBUG_PROXY.
DebugValues == { "unset", "1" }

\* const DEBUG = process.env.DEBUG_PROXY === "1";
DEBUG(env) == env = "1"

\* Values of process.env.CORS_ALLOW_ORIGINS.
CorsValues == { "unset", "https://store.example" }

\* if (CORS_ALLOW.length)
CorsEnabled(env) == env # "unset"

BusinessPath == MOUNT_PREFIX \o RouteSuffix

DebugPath == MOUNT_PREFIX \o Str(<<"/_debug">>)

RootPath == Str(<<"/">>)

HealthPath == Str(<<"/healthz">>)

OtherPath == Str(<<"/other">>)

UrlDebug == DebugPath \o <<QMark>> \o Join(<<PrefixEncoded, ShopX, SigPrefix \o SignedFull>>, Amp)

RouteUrls ==
  { UrlSigned, UrlTampered, UrlVerbose, BusinessPath, UrlDebug, RootPath,
    HealthPath, OtherPath }

\* app.get(...) also answers HEAD when the path has no HEAD route.
IsGet(method) == method \in { "GET", "HEAD" }

\* The handler that answers a request: the first middleware or route, in
\* registration order, that matches its method and path and ends it.
RouteOf(method, path, debugEnv, corsEnv) ==
  IF CorsEnabled(corsEnv) /\ method = "OPTIONS" THEN "cors-preflight"
  ELSE IF IsGet(method) /\ path = RootPath THEN "root"
  ELSE IF IsGet(method) /\ path = HealthPath THEN "healthz"
  ELSE IF DEBUG(debugEnv) /\ IsGet(method) /\ path = DebugPath THEN "debug"
  ELSE IF IsGet(method) /\ path = BusinessPath THEN "get-405"
  ELSE IF method = "OPTIONS" /\ path = BusinessPath THEN "options-204"
  ELSE IF method = "POST" /\ path = BusinessPath THEN "post"
  ELSE "fallback"

\* res.json of the debug route (531-539).
DebugBody(url) ==
  LET originalUrl == originalUrlOf(url)
      rawPath     == rawPathOf(originalUrl)
      rawQuery    == rawQueryOf(originalUrl)
  IN  [originalUrl       |-> originalUrl,
       serverPathname    |-> serverPathnameOf(rawPath),
       decodedPathPrefix |-> decodedPathPrefixOf(rawQuery),
       storefrontPath    |-> storefrontPathOf(rawPath, rawQuery),
       rawQuery          |-> rawQuery,
       keptQuery         |-> keptQueryOf(rawQuery),
       messageHashed     |-> messageOf(rawPath, rawQuery)]

\* Status and body the routes other than the POST handler send.
SyncResponse(handler, url) ==
  CASE handler = "cors-preflight" -> [status |-> 204, body |-> <<>>]
    [] handler = "root"           -> [status |-> 200, body |-> [text |-> Str(<<"RFQ app running">>)]]
    [] handler = "healthz"        -> [status |-> 200, body |-> [text |-> Str(<<"ok">>)]]
    [] handler = "debug"          -> [status |-> 200, body |-> DebugBody(url)]
    [] handler = "get-405"        -> [status |-> 405, body |-> [error |-> Str(<<"Method Not Allowed">>)]]
    [] handler = "options-204"    -> [status |-> 204, body |-> <<>>]
    [] handler = "fallback"       -> [status |-> 404, body |-> [error |-> Str(<<"Not Found">>)]]

\* JSON null in a response body.
JsonNull == << <<"null", "", <<>>>> >>

\* The body of the response the POST handler has sent for a request.
PostBody(rec) ==
  LET id      == Str(<<ToString(rec.reference)>>)
      invoice == IF rec.invoice_url = "" THEN JsonNull ELSE Str(<<rec.invoice_url>>)
      url     == Str(<<"https://", SHOP, "/admin/draft_orders/", ToString(rec.reference)>>)
  IN  IF rec.pc # "done" THEN <<>>
      ELSE IF rec.status # 200 THEN [error |-> Str(<<rec.error>>)]
      ELSE IF rec.draft_order_id # 0
      THEN [reference |-> id, admin_url |-> url, draft_order_id |-> id,
            invoice_url |-> invoice]
      ELSE [reference |-> id, admin_url |-> url, invoice_url |-> invoice]

\* What verifyProxySignature writes to the console (470-482): nothing
\* unless DEBUG, and nothing when it returns before the comparison.
DebugLines(v, debugEnv) ==
  IF DEBUG(debugEnv) /\ v.stage = "compared"
  THEN { v.storefrontPath, v.keptQuery, v.message, v.providedSignature, v.digest }
  ELSE {}

VerifyLog(url, debugEnv) ==
  DebugLines(verifyProxySignature(url, ServerSecret), debugEnv)

\* What the POST handler makes the verifier log: the verifier is not
\* called under the bypass.
HandlerLog(url, allowEnv, debugEnv) ==
  IF ALLOW_UNVERIFIED(allowEnv) THEN {} ELSE VerifyLog(url, debugEnv)

InitRoute ==
  /\ vUrl = <<>>
  /\ vSecret = ""
  /\ vpc = "off"
  /\ vOut = NoCall
  /\ envAllow \in EnvValues
  /\ envDebug \in DebugValues
  /\ envCors \in CorsValues
  /\ req = [r \in Reqs |-> IdleReq]
  /\ customers \in InitialCustomers
  /\ drafts = <<>>
  /\ http = IdleHttp
  /\ log = {}
  /\ AssembleIdle

\* A request arrives and is routed; every route but the POST handler
\* answers at once, the POST handler runs to its first await or response.
Dispatch ==
  /\ http.pc = "idle"
  /\ \E method \in Methods, url \in RouteUrls, li \in LineItemsValues,
        email \in Emails, shape \in BodyShapes :
       LET handler == RouteOf(method, rawPathOf(originalUrlOf(url)), envDebug, envCors)
           exchange == [IdleHttp EXCEPT !.pc = "routed", !.method = method,
                                        !.url = url, !.handler = handler]
       IN  IF handler = "post"
           THEN /\ req' = [req EXCEPT ![1] = Handle(url, li, email, shape)]
                /\ http' = exchange
                /\ log' = HandlerLog(url, envAllow, envDebug)
           ELSE /\ req' = req
                /\ http' = [exchange EXCEPT !.status = SyncResponse(handler, url).status,
                                            !.body = SyncResponse(handler, url).body]
                /\ log' = log
  /\ UNCHANGED <<envAllow, customers, drafts, envDebug, envCors>>
  /\ UNCHANGED verifierVars
  /\ UNCHANGED assembleVars

NextRoute ==
  \/ Dispatch
  \/ \E r \in Reqs :
       \/ SearchOk(r)
       \/ SearchFail(r)
       \/ CreateOk(r)
       \/ CreateFail(r)
       \/ DraftOk(r)
       \/ DraftFail(r)

SpecRoute == InitRoute /\ [][NextRoute]_vars

(***************************************************************************)
(* The assembly of the draft-order payload (server.js 637-710).  Values of *)
(* the line items are JavaScript values, tagged with their type; texts of  *)
(* the note are sequences of pieces, "" being the empty sequence.          *)
(***************************************************************************)
Undefined == <<"undefined">>

NaN == <<"NaN">>

Num(n) == <<"number", n>>

Text(t) == <<"string", t>>

Array(xs) == <<"array", xs>>

\* The falsy values among those above: undefined, 0, "" and NaN.
Truthy(v) == v # Undefined /\ v # NaN /\ v # Num(0) /\ v # Text("")

\* The numeric strings of the inputs and the numbers they spell.
NumericText == ("123" :> 123) @@ ("2" :> 2) @@ ("" :> 0)

\* Number(v): a number is itself, a numeric string the number it spells,
\* anything else among the values above NaN.
Number(v) ==
  IF v[1] = "number" THEN v
  ELSE IF v[1] = "string" /\ v[2] \in DOMAIN NumericText THEN Num(NumericText[v[2]])
  ELSE NaN

\* li.variant_id ? { variant_id: Number(li.variant_id) } : { title, price }
ItemProduct(li) ==
  IF Truthy(li.variant_id) THEN [variant_id |-> Number(li.variant_id)]
  ELSE [title |-> li.title, price |-> li.price]

\* Variant: the quantity is converted without a default.
ItemQuantity_NoDefault(li) == Number(li.quantity)

\* quantity: Number(li.quantity || 1)
ItemQuantity(li) == Number(IF Truthy(li.quantity) THEN li.quantity ELSE Num(1))

\* properties: li.properties || []
ItemProperties(li) == IF Truthy(li.properties) THEN li.properties ELSE Array(<<>>)

MapLineItem(li) ==
  ItemProduct(li) @@ [quantity |-> ItemQuantity(li), properties |-> ItemProperties(li)]

\* A text as pieces: nothing for "", else the text itself.
Pieces(t) == IF t = "" THEN <<>> ELSE <<t>>

\* xs.filter(Boolean) on texts: the empty ones go.
FilterBoolean(xs) == SelectSeq(xs, LAMBDA x : x # <<>>)

\* x && y for a text x: x itself (empty) when x is empty, else y.
AndThen(x, y) == IF x = <<>> THEN <<>> ELSE y

YesNo(flag) == IF flag THEN "Yes" ELSE "No"

fullNameOf(customer) ==
  Join(FilterBoolean(<<Pieces(customer.first_name), Pieces(customer.last_name)>>), " ")

\* The separator " / " stands for the bullet the code joins with.
contactBitsOf(customer) ==
  Join(FilterBoolean(<<AndThen(Pieces(customer.email), <<"Email: ", customer.email>>),
                       AndThen(Pieces(customer.phone), <<"Phone: ", customer.phone>>),
                       AndThen(Pieces(customer.company), <<"Company: ", customer.company>>)>>),
       " / ")

\* Variant: the country line shows only a country that was supplied.
NoteCountry_NoDefault(shipping) == shipping.country

\* shipping.country || "United States"
NoteCountry(shipping) ==
  IF shipping.country # "" THEN shipping.country ELSE "United States"

shippingAddrOf(shipping) ==
  IF shipping.address1 # ""
  THEN Join(FilterBoolean(<<Pieces(shipping.address1),
                            Pieces(shipping.address2),
                            Join(FilterBoolean(<<Pieces(shipping.city),
                                                 Pieces(shipping.province),
                                                 Pieces(shipping.zip)>>), ", "),
                            Pieces(NoteCountry(shipping))>>),
            "\n    ")
  ELSE <<>>

prettyNoteOf(body) ==
  Join(FilterBoolean(<<
         <<"RFQ from storefront">>,
         AndThen(fullNameOf(body.customer), <<"Customer: ">> \o fullNameOf(body.customer)),
         contactBitsOf(body.customer),
         AndThen(Pieces(body.shipping_method), <<"Ship method: ", body.shipping_method>>),
         <<"Installer needed: ", YesNo(body.installer_needed)>>,
         AndThen(shippingAddrOf(body.shipping),
                 <<"Ship to:\n    ">> \o shippingAddrOf(body.shipping)),
         AndThen(Pieces(body.note), <<"Message: ", body.note>>)>>),
       "\n")

\* The pairs before the filter (665-678).
AttributePairs(body) ==
  <<[name |-> "rfq_installer_needed",    value |-> YesNo(body.installer_needed)],
    [name |-> "rfq_shipping_method",     value |-> body.shipping_method],
    [name |-> "rfq_customer_first_name", value |-> body.customer.first_name],
    [name |-> "rfq_customer_last_name",  value |-> body.customer.last_name],
    [name |-> "rfq_customer_email",      value |-> body.customer.email],
    [name |-> "rfq_customer_phone",      value |-> body.customer.phone],
    [name |-> "rfq_customer_company",    value |-> body.customer.company],
    [name |-> "rfq_message",             value |-> body.note],
    [name |-> "rfq_address1",            value |-> body.shipping.address1],
    [name |-> "rfq_address2",            value |-> body.shipping.address2],
    [name |-> "rfq_city",                value |-> body.shipping.city],
    [name |-> "rfq_province",            value |-> body.shipping.province],
    [name |-> "rfq_zip",                 value |-> body.shipping.zip],
    [name |-> "rfq_country",             value |-> body.shipping.country]>>

\* Variant: the pairs are sent unfiltered.
KeepPair_All(pair) == TRUE

\* .filter(p => (p.value ?? "") !== "")
KeepPair(pair) == pair.value # ""

note_attributesOf(body) == SelectSeq(AttributePairs(body), KeepPair)

\* shipping_address: present only with an address line (691-704).
shipping_addressOf(body) ==
  IF body.shipping.address1 # ""
  THEN [first_name |-> body.customer.first_name,
        last_name  |-> body.customer.last_name,
        phone      |-> body.customer.phone,
        address1   |-> body.shipping.address1,
        address2   |-> body.shipping.address2,
        city       |-> body.shipping.city,
        province   |-> body.shipping.province,
        zip        |-> body.shipping.zip,
        country    |-> NoteCountry(body.shipping),
        company    |-> body.customer.company]
  ELSE Undefined

\* const payload = { draft_order: { ... } } (681-710)
PayloadOf(body, customerId) ==
  [line_items       |-> [i \in 1..Len(body.line_items) |-> MapLineItem(body.line_items[i])],
   customer         |-> [id |-> customerId],
   shipping_address |-> shipping_addressOf(body),
   note             |-> prettyNoteOf(body),
   note_attributes  |-> note_attributesOf(body),
   tags             |-> "RFQ,DraftOrder,WebForm",
   use_customer_default_address |-> TRUE]

MaxItems == 2

\* Line items of a submission: a variant id that is missing, empty, a
\* number or a numeric string; a title and price; a quantity that is
\* missing, 0, a number or a numeric string; properties or none.
LineItems ==
  { [variant_id |-> v, title |-> tp[1], price |-> tp[2], quantity |-> q, properties |-> ps] :
      v  \in { Undefined, Text(""), Num(123), Text("123") },
      tp \in { <<Undefined, Undefined>>, <<Text("Oak plank"), Text("9.99")>> },
      q  \in { Undefined, Num(0), Num(2), Text("2") },
      ps \in { Undefined, Array(<<[name |-> "color", value |-> "red"]>>) } }

\* Line items for the submissions with several of them: a variant with a
\* quantity, a custom item without one, an empty variant id with a numeric
\* string for quantity and properties, a variant with quantity 0.
SomeItems ==
  { [variant_id |-> Num(123), title |-> Undefined, price |-> Undefined,
     quantity |-> Num(2), properties |-> Undefined],
    [variant_id |-> Undefined, title |-> Text("Oak plank"), price |-> Text("9.99"),
     quantity |-> Undefined, properties |-> Undefined],
    [variant_id |-> Text(""), title |-> Text("Oak plank"), price |-> Text("9.99"),
     quantity |-> Text("2"),
     properties |-> Array(<<[name |-> "color", value |-> "red"]>>)],
    [variant_id |-> Text("123"), title |-> Undefined, price |-> Undefined,
     quantity |-> Num(0), properties |-> Undefined] }

OneItem ==
  [variant_id |-> Num(123), title |-> Undefined, price |-> Undefined,
   quantity |-> Num(2), properties |-> Undefined]

CustomerBlocks ==
  [first_name : { "", "Ann" }, last_name : { "", "Lee" }, email : { "", "e1" },
   phone : { "", "555-0100" }, company : { "", "Acme" }]

ShippingBlocks ==
  [address1 : { "", "1 Main St" }, address2 : { "", "Suite 2" },
   city : { "", "Austin" }, province : { "", "TX" }, zip : { "", "78701" },
   country : { "", "Canada" }]

FullBody ==
  [line_items |-> <<OneItem>>,
   customer |-> [first_name |-> "Ann", last_name |-> "Lee", email |-> "e1",
                 phone |-> "555-0100", company |-> "Acme"],
   shipping |-> [address1 |-> "1 Main St", address2 |-> "Suite 2", city |-> "Austin",
                 province |-> "TX", zip |-> "78701", country |-> "Canada"],
   note |-> "call first", installer_needed |-> TRUE, shipping_method |-> "Freight"]

\* Submissions with one line item of any kind, submissions with several
\* line items, and submissions that vary in every other field.
Bodies ==
  { [FullBody EXCEPT !.line_items = <<i>>] : i \in LineItems }
  \cup
  { [FullBody EXCEPT !.line_items = ls] :
      ls \in UNION { [1..n -> SomeItems] : n \in 2..MaxItems } }
  \cup
  { [line_items |-> <<OneItem>>, customer |-> c, shipping |-> sh, note |-> n,
     installer_needed |-> f, shipping_method |-> m] :
      c \in CustomerBlocks, sh \in ShippingBlocks, n \in { "", "call first" },
      f \in BOOLEAN, m \in { "", "Freight" } }

InitAssemble ==
  /\ vUrl = <<>>
  /\ vSecret = ""
  /\ vpc = "off"
  /\ vOut = NoCall
  /\ envAllow = "unset"
  /\ req = [r \in Reqs |-> IdleReq]
  /\ customers = <<>>
  /\ drafts = <<>>
  /\ RouteIdle
  /\ aIn \in Bodies
  /\ aOut = <<>>
  /\ apc = "ready"

\* The payload is assembled for a body whose customer was resolved to 1.
Assemble ==
  /\ apc = "ready"
  /\ apc' = "done"
  /\ aOut' = PayloadOf(aIn, 1)
  /\ UNCHANGED <<aIn, envAllow, req, customers, drafts>>
  /\ UNCHANGED verifierVars
  /\ UNCHANGED routeVars

NextAssemble == Assemble

SpecAssemble == InitAssemble /\ [][NextAssemble]_vars

(***************************************************************************)
(* Vocabulary of the claims about the verifier.                            *)
(***************************************************************************)
\* The &-delimited fragments of the raw query of a URL.
QueryFrags(url) ==
  LET q == rawQueryOf(originalUrlOf(url))
  IN  IF q = <<>> THEN <<>> ELSE Split(q, Amp)

IsSignatureFrag(kv) == Len(kv) >= 2 /\ kv[1] = Chr("signature") /\ kv[2] = Chr("=")

IsHmacFrag(kv) == Len(kv) >= 2 /\ kv[1] = Chr("hmac") /\ kv[2] = Chr("=")

\* Fragments the platform's parameters are made of: neither empty nor a
\* signature= or hmac= fragment.
IsKeptFrag(kv) == kv # <<>> /\ ~IsSignatureFrag(kv) /\ ~IsHmacFrag(kv)

FragValue(kv) == SubSeq(kv, 3, Len(kv))

MinOf(S) == CHOOSE x \in S : \A y \in S : x <= y

\* The fragments at the indexes idx, in increasing order of index.
PickFrags(frags, idx) ==
  [k \in 1..Cardinality(idx) |->
     frags[CHOOSE i \in idx : Cardinality({j \in idx : j <= i}) = k]]

InsertAt(seq, j, x) == SubSeq(seq, 1, j) \o <<x>> \o SubSeq(seq, j + 1, Len(seq))

RemoveAt(seq, i) == SubSeq(seq, 1, i - 1) \o SubSeq(seq, i + 1, Len(seq))

ReplaceAt(seq, i, x) == [seq EXCEPT ![i] = x]

SwapAt(seq, i, j) == [seq EXCEPT ![i] = seq[j], ![j] = seq[i]]

UrlOf(path, frags) == path \o <<QMark>> \o Join(frags, Amp)

vPath == rawPathOf(originalUrlOf(vUrl))

vFrags == QueryFrags(vUrl)

\* Indexes of the fragments that carry a signature, under either key.
vSigLike == { i \in 1..Len(vFrags) : IsSignatureFrag(vFrags[i]) \/ IsHmacFrag(vFrags[i]) }

\* The value of the first fragment, in raw order, that carries a signature.
vFirstSigValue == IF vSigLike = {} THEN <<>> ELSE FragValue(vFrags[MinOf(vSigLike)])

\* The digest of the canonical message of the call under the secret.
vDigest == HmacSha256Hex(vSecret, messageOf(vPath, rawQueryOf(originalUrlOf(vUrl))))

(* C1: verifyProxySignature never throws; it returns false when the raw
   query has no signature= or hmac= fragment, when the provided signature
   (the value of the first such fragment) has not the length of the hex
   digest, when it has that length but is not the digest of the canonical
   message, and when the secret is empty; it returns true only when the
   provided signature equals the digest under a non-empty secret. *)
C1_VerifyFailsClosed ==
  vpc = "returned" =>
    /\ ~vOut.threw
    /\ vSigLike = {} => ~vOut.value
    /\ ByteLen(vFirstSigValue) # HexDigestLen => ~vOut.value
    /\ (ByteLen(vFirstSigValue) = HexDigestLen /\ vFirstSigValue # vDigest) => ~vOut.value
    /\ vSecret = "" => ~vOut.value
    /\ vOut.value => (vSecret # "" /\ vFirstSigValue = vDigest)

\* A call rejected for a signature of the right length that is not the digest.
C1_Witness ==
  /\ vpc = "returned"
  /\ vSecret # ""
  /\ ByteLen(vFirstSigValue) = HexDigestLen
  /\ vFirstSigValue # vDigest
  /\ ~vOut.value

(* C2: when the verifier builds the canonical message, its kept query is
   the &-join of the fragments of the raw query, in raw order and byte for
   byte, without exactly the empty fragments and those beginning with
   signature= or hmac=; the message is the storefront path alone when the
   kept query is empty and storefrontPath?keptQuery otherwise. *)
C2_KeptQueryAndMessage ==
  (vpc = "returned" /\ vOut.stage = "compared") =>
    LET idx  == { i \in 1..Len(vFrags) : IsKeptFrag(vFrags[i]) }
        kept == Join(PickFrags(vFrags, idx), Amp)
    IN  /\ vOut.keptQuery = kept
        /\ vOut.message = IF kept = <<>> THEN vOut.storefrontPath
                          ELSE vOut.storefrontPath \o <<QMark>> \o kept

\* A compared call whose raw query holds a kept fragment between a dropped
\* empty fragment and a dropped signature fragment.
C2_Witness ==
  /\ vpc = "returned"
  /\ vOut.stage = "compared"
  /\ Len(vFrags) = 3
  /\ vFrags[1] = <<>>
  /\ IsKeptFrag(vFrags[2])
  /\ IsSignatureFrag(vFrags[3])
  /\ vOut.keptQuery = vFrags[2]

vQuery == rawQueryOf(originalUrlOf(vUrl))

vSignatureIdx == { i \in 1..Len(vFrags) : IsSignatureFrag(vFrags[i]) }

vHmacIdx == { i \in 1..Len(vFrags) : IsHmacFrag(vFrags[i]) }

\* The URLs that differ from the call's only by the place of its one
\* signature= fragment among the other fragments.
vRepositioned ==
  LET i      == MinOf(vSignatureIdx)
      others == RemoveAt(vFrags, i)
  IN  { UrlOf(vPath, InsertAt(others, j, vFrags[i])) : j \in 0..Len(others) }

(* C3 as stated: with one signature= fragment in the raw query, the
   canonical message and the result of verification are the same wherever
   that fragment stands among the other fragments. *)
C3_AnyPositionAsStated ==
  (vpc = "returned" /\ Cardinality(vSignatureIdx) = 1) =>
    \A url2 \in vRepositioned :
      /\ messageOf(vPath, rawQueryOf(url2)) = messageOf(vPath, vQuery)
      /\ verifyProxySignature(url2, vSecret).value = vOut.value

(* C3 amended: with one signature= fragment in the raw query, the canonical
   message is the same wherever that fragment stands among the other
   fragments, and so is the result of verification provided none of the
   other fragments begins with hmac=. *)
C3_AnyPosition ==
  (vpc = "returned" /\ Cardinality(vSignatureIdx) = 1) =>
    \A url2 \in vRepositioned :
      /\ messageOf(vPath, rawQueryOf(url2)) = messageOf(vPath, vQuery)
      /\ vHmacIdx = {} => verifyProxySignature(url2, vSecret).value = vOut.value

\* An accepted call whose signature= fragment comes first, ahead of the
\* path_prefix fragment and one more parameter.
C3_Witness ==
  /\ vpc = "returned"
  /\ vOut.value
  /\ Len(vFrags) = 3
  /\ IsSignatureFrag(vFrags[1])
  /\ vFrags[2] = PrefixEncoded
  /\ IsKeptFrag(vFrags[3])

\* The URLs obtained from the call's by exchanging two different fragments
\* of the kind `pair`, or by giving one of them other bytes.
Tampered(pair(_)) ==
  LET idx == { i \in 1..Len(vFrags) : pair(vFrags[i]) }
  IN  { UrlOf(vPath, SwapAt(vFrags, i, j)) :
          <<i, j>> \in { p \in idx \X idx : p[1] < p[2] /\ vFrags[p[1]] # vFrags[p[2]] } }
      \cup
      { UrlOf(vPath, ReplaceAt(vFrags, p[1], p[2])) :
          p \in { p \in idx \X { f \in Fragments : pair(f) } : vFrags[p[1]] # p[2] } }

(* C4 as stated: if the call is accepted, every raw query that keeps the
   signature fragment but exchanges two different non-signature pairs (the
   non-empty fragments beginning neither with signature= nor with hmac=),
   or changes the bytes of one, has a different canonical message and is
   rejected. *)
C4_TamperRejectedAsStated ==
  (vpc = "returned" /\ vOut.value) =>
    \A url2 \in Tampered(IsKeptFrag) :
      /\ messageOf(vPath, rawQueryOf(url2)) # vOut.message
      /\ ~verifyProxySignature(url2, vSecret).value

(* C4 amended: if the call is accepted, every raw query that keeps the
   signature fragment but exchanges two different non-signature pairs, or
   changes the bytes of one, and whose decoded path_prefix (the storefront
   mount path) is the same, has a different canonical message and is
   rejected. *)
C4_TamperRejected ==
  (vpc = "returned" /\ vOut.value) =>
    \A url2 \in Tampered(IsKeptFrag) :
      decodedPathPrefixOf(rawQueryOf(url2)) = decodedPathPrefixOf(vQuery) =>
        /\ messageOf(vPath, rawQueryOf(url2)) # vOut.message
        /\ ~verifyProxySignature(url2, vSecret).value

\* An accepted call with two different kept pairs, one of them the shop.
C4_Witness ==
  /\ vpc = "returned"
  /\ vOut.value
  /\ \E i, j \in 1..Len(vFrags) :
       /\ i < j
       /\ vFrags[i] = PrefixEncoded
       /\ vFrags[j] = ShopX

PairKey(kv) ==
  LET eq == IndexOf(kv, EqSign) IN IF eq = 0 THEN kv ELSE SubSeq(kv, 1, eq - 1)

PairVal(kv) ==
  LET eq == IndexOf(kv, EqSign) IN IF eq = 0 THEN <<>> ELSE SubSeq(kv, eq + 1, Len(kv))

vPrefixIdx == { i \in 1..Len(vFrags) : PairKey(vFrags[i]) = Str(<<"path_prefix">>) }

\* The raw value of the first pair whose key is exactly path_prefix.
vPrefixVal == PairVal(vFrags[MinOf(vPrefixIdx)])

vPrefixDecoded ==
  IF decodeURIComponent(vPrefixVal).threw THEN vPrefixVal
  ELSE decodeURIComponent(vPrefixVal).value

\* The raw path without the mount prefix /proxy at its front.
vSuffix ==
  IF Len(vPath) >= 1 /\ vPath[1] = Chr("/proxy") THEN Tail(vPath) ELSE vPath

(* C5 as stated: the storefront path is the mount path followed by the raw
   path without its /proxy prefix; the mount path is the decoded value of
   the path_prefix pair when there is one (the raw value when decoding
   fails) and the default /apps/rfq when there is none. *)
C5_StorefrontPathAsStated ==
  (vpc = "returned" /\ vOut.stage = "compared") =>
    vOut.storefrontPath =
      (IF vPrefixIdx = {} THEN DefaultPathPrefix ELSE vPrefixDecoded) \o vSuffix

(* C5 amended: the storefront path is the mount path followed by the raw
   path without its /proxy prefix; the mount path is the decoded value of
   the first pair whose key is exactly path_prefix (the raw value when
   decoding fails), and the default /apps/rfq when there is no such pair or
   when the value of the first one is empty. *)
C5_StorefrontPath ==
  (vpc = "returned" /\ vOut.stage = "compared") =>
    vOut.storefrontPath =
      (IF vPrefixIdx = {} \/ vPrefixVal = <<>> THEN DefaultPathPrefix
       ELSE vPrefixDecoded) \o vSuffix

\* A compared call under /proxy whose path_prefix value is percent-decoded.
C5_Witness ==
  /\ vpc = "returned"
  /\ vOut.stage = "compared"
  /\ vPath = MOUNT_PREFIX \o RouteSuffix
  /\ vPrefixIdx # {}
  /\ vPrefixVal = Str(<<"%2F", "alt">>)
  /\ vOut.storefrontPath = AltMount \o RouteSuffix

(* C6 as stated: the provided signature is the value of the signature=
   fragment whenever the raw query has one, wherever the hmac= fragments
   stand; the value of an hmac= fragment is used only when there is no
   signature= fragment. *)
C6_SignatureBeforeHmacAsStated ==
  (vpc = "returned" /\ vOut.stage # "no-secret") =>
    vOut.providedSignature =
      IF vSignatureIdx # {} THEN FragValue(vFrags[MinOf(vSignatureIdx)])
      ELSE IF vHmacIdx # {} THEN FragValue(vFrags[MinOf(vHmacIdx)])
      ELSE <<>>

(* C6 amended: the provided signature is the value of the first fragment,
   in raw order, that begins with signature= or with hmac=; a signature=
   fragment that follows an hmac= fragment is not read. *)
C6_FirstSignatureOrHmac ==
  (vpc = "returned" /\ vOut.stage # "no-secret") =>
    vOut.providedSignature = vFirstSigValue

\* A compared call whose hmac= fragment precedes its signature= fragment.
C6_Witness ==
  /\ vpc = "returned"
  /\ vOut.stage = "compared"
  /\ vSignatureIdx # {}
  /\ vHmacIdx # {}
  /\ MinOf(vHmacIdx) < MinOf(vSignatureIdx)
  /\ vOut.providedSignature = FragValue(vFrags[MinOf(vHmacIdx)])

\* The URLs obtained from the call's by inserting one empty fragment at any
\* place, or one more signature= or hmac= fragment at any place after the
\* first fragment that carries a signature.
vPadded ==
  { UrlOf(vPath, InsertAt(vFrags, j, <<>>)) : j \in 0..Len(vFrags) }
  \cup
  (IF vSigLike = {} THEN {}
   ELSE { UrlOf(vPath, InsertAt(vFrags, j, f)) :
            j \in MinOf(vSigLike)..Len(vFrags),
            f \in SignatureFragments \cup HmacFragments })

(* C20: if the call is accepted, every raw query obtained from its by
   inserting an empty fragment anywhere, or a further signature= or hmac=
   fragment after the first such fragment, builds the same canonical
   message and is accepted too; and a call whose first signature= or hmac=
   fragment has an empty value is rejected, whatever the later fragments
   carry. *)
C20_DiscardedFragments ==
  vpc = "returned" =>
    /\ vOut.value =>
         \A url2 \in vPadded :
           /\ messageOf(vPath, rawQueryOf(url2)) = vOut.message
           /\ verifyProxySignature(url2, vSecret).value
    /\ (vSigLike # {} /\ vFirstSigValue = <<>>) => ~vOut.value

\* An accepted call that already has an empty fragment and a second
\* fragment carrying a signature after the first.
C20_Witness ==
  /\ vpc = "returned"
  /\ vOut.value
  /\ \E i \in 1..Len(vFrags) : vFrags[i] = <<>>
  /\ Cardinality(vSigLike) = 2
  /\ vFrags[MinOf(vSigLike)] # vFrags[CHOOSE i \in vSigLike : i # MinOf(vSigLike)]

\* A rejected call whose first signature= fragment is empty and whose
\* second carries the digest of its canonical message.
C20_EmptyFirstReached ==
  /\ vpc = "returned"
  /\ ~vOut.value
  /\ Len(vFrags) >= 2
  /\ vFrags[1] = SigPrefix
  /\ FragValue(vFrags[2]) = vDigest

(***************************************************************************)
(* Vocabulary of the claims about the handler.                             *)
(***************************************************************************)
Arrived(r) == req[r].pc # "idle"

Issued(r, call) == \E i \in 1..Len(req[r].calls) : req[r].calls[i] = call

\* The calls findOrCreateCustomer made for the request, in order.
CustomerCalls(r) == SelectSeq(req[r].calls, LAMBDA c : c # "draft")

\* findOrCreateCustomer has returned an id for the request.
Resolved(r) == req[r].customerId # 0

\* Whether the signature of a URL verifies under the server's secret.
SignatureVerifies[url \in HandlerUrls \cup { <<>> }] ==
  verifyProxySignature(url, ServerSecret).value

Verifies(r) == SignatureVerifies[req[r].url]

(* C7: unless the bypass is configured, a POST whose signature does not
   verify is answered 401 {error: "Invalid HMAC"} and no admin call is ever
   issued for it; a draft-order create is issued, and a draft order is
   created, only for requests whose signature verified. *)
C7_FailedVerificationStops ==
  ~ALLOW_UNVERIFIED(envAllow) =>
    /\ \A r \in Reqs :
         /\ (Arrived(r) /\ ~Verifies(r)) =>
              /\ req[r].pc = "done"
              /\ req[r].status = 401
              /\ req[r].error = "Invalid HMAC"
              /\ req[r].calls = <<>>
         /\ Issued(r, "draft") => (Verifies(r) /\ req[r].verify = "passed")
    /\ \A i \in 1..Len(drafts) : Verifies(drafts[i].by)

\* Without the bypass, one request was answered 401 while another one got
\* its draft order created.
C7_Witness ==
  /\ ~ALLOW_UNVERIFIED(envAllow)
  /\ \E r, q \in Reqs :
       /\ req[r].status = 401
       /\ req[r].url = UrlTampered
       /\ req[q].status = 200
       /\ drafts # <<>>

(* C8 as stated: a POST whose line_items is absent or empty is answered
   400 {error: "No line items"} before signature verification is run,
   whatever its outcome would be, and without any admin call. *)
C8_NoLineItemsAsStated ==
  \A r \in Reqs :
    (Arrived(r) /\ req[r].line_items \in { "absent", "empty" }) =>
      /\ req[r].status = 400
      /\ req[r].error = "No line items"
      /\ req[r].verify = "not-run"
      /\ req[r].calls = <<>>

(* C8 amended: a POST whose line_items is absent or empty is answered
   without any admin call: 401 {error: "Invalid HMAC"} when the signature
   verification, which runs first unless it is bypassed, fails, and
   400 {error: "No line items"} otherwise. *)
C8_NoLineItems ==
  \A r \in Reqs :
    (Arrived(r) /\ req[r].line_items \in { "absent", "empty" }) =>
      /\ req[r].pc = "done"
      /\ req[r].calls = <<>>
      /\ IF ~ALLOW_UNVERIFIED(envAllow) /\ ~Verifies(r)
         THEN req[r].status = 401 /\ req[r].error = "Invalid HMAC"
         ELSE req[r].status = 400 /\ req[r].error = "No line items"

\* A request with a verified signature and an empty line_items array was
\* answered 400.
C8_Witness ==
  \E r \in Reqs :
    /\ req[r].line_items = "empty"
    /\ req[r].url = UrlSigned
    /\ req[r].verify = "passed"
    /\ req[r].status = 400

(* C9: verification is skipped exactly when ALLOW_UNVERIFIED_PROXY is "1";
   when it is unset or has another value, every POST goes through
   verifyProxySignature first: its outcome is the verifier's, and a request
   that fails it is answered 401 with nothing else done. *)
C9_BypassOnlyWhenOne ==
  \A r \in Reqs :
    Arrived(r) =>
      /\ (req[r].verify = "not-run") <=> (envAllow = "1")
      /\ envAllow # "1" =>
           /\ (req[r].verify = "passed") <=> Verifies(r)
           /\ (req[r].verify = "failed") <=> ~Verifies(r)
           /\ ~Verifies(r) => (req[r].status = 401 /\ req[r].calls = <<>>)

\* The variable is set to a value other than "1" and a request failed the
\* verification it therefore went through.
C9_Witness ==
  /\ envAllow \in { "0", "true" }
  /\ \E r \in Reqs : req[r].verify = "failed" /\ req[r].status = 401

(* C10: findOrCreateCustomer makes at most one search and one create; with
   an email for which the search returns a record it makes no create and
   returns the id of the first match; with no email it makes no search and
   one create; with an email and no match it makes one search, then one
   create, and returns the id of the customer created. *)
C10_FindOrCreateCustomer ==
  \A r \in Reqs :
    /\ req[r].email = "" => ~Issued(r, "search")
    /\ req[r].result # <<>> => ~Issued(r, "create")
    /\ CustomerCalls(r) \in { <<>>, <<"search">>, <<"create">>, <<"search", "create">> }
    /\ Resolved(r) =>
         /\ (req[r].email # "" /\ req[r].result # <<>>) =>
              /\ CustomerCalls(r) = <<"search">>
              /\ req[r].customerId = req[r].result[1]
              /\ customers[req[r].customerId].email = req[r].email
         /\ req[r].email = "" =>
              /\ CustomerCalls(r) = <<"create">>
              /\ req[r].customerId = req[r].created
         /\ (req[r].email # "" /\ req[r].result = <<>>) =>
              /\ CustomerCalls(r) = <<"search", "create">>
              /\ req[r].customerId = req[r].created
              /\ customers[req[r].created].email = req[r].email

\* One request was resolved by the first of two matches and another one by
\* a create.
C10_Witness ==
  \E r, q \in Reqs :
    /\ Resolved(r)
    /\ Len(req[r].result) = 2
    /\ req[r].customerId = req[r].result[1]
    /\ Resolved(q)
    /\ req[q].email = ""
    /\ req[q].customerId = req[q].created

(* C11: a request answered 200 carries as reference the id the admin system
   returned for the draft order it created for that request, as admin_url
   the URL built from the store domain and that id, and as invoice_url the
   invoice URL when the admin system returned one; when the admin system's
   answer to the draft-order create lacks an id the request is answered 500
   and never 200. *)
C11_SucceededResponse ==
  \A r \in Reqs :
    /\ req[r].status = 200 =>
         /\ req[r].pc = "done"
         /\ req[r].out.ok
         /\ req[r].out.id # 0
         /\ req[r].reference = req[r].out.id
         /\ \E i \in 1..Len(drafts) :
              drafts[i].id = req[r].reference /\ drafts[i].by = r
         /\ req[r].admin_url = <<"https://", SHOP, "/admin/draft_orders/", req[r].out.id>>
         /\ req[r].out.invoice_url # "" => req[r].invoice_url = req[r].out.invoice_url
    /\ (req[r].out.ok /\ req[r].out.id = 0) =>
         /\ req[r].pc = "done"
         /\ req[r].status = 500
         /\ req[r].error = "No draft order id returned"

\* One request was answered 200 with the draft order's id, which is not its
\* customer's, and its invoice URL, another one 500 because the answer had
\* no id.
C11_Witness ==
  \E r, q \in Reqs :
    /\ req[r].status = 200
    /\ req[r].reference # req[r].customerId
    /\ req[r].invoice_url = "invoice"
    /\ req[q].out.ok
    /\ req[q].out.id = 0
    /\ req[q].status = 500

\* How many times the request issued the call.
TimesIssued(r, call) ==
  Cardinality({ i \in 1..Len(req[r].calls) : req[r].calls[i] = call })

LastCall(r) == req[r].calls[Len(req[r].calls)]

(* C14: an error thrown while the customer is resolved, the payload
   assembled or the draft order submitted (a failed search or create, a
   non-success upstream status, a missing field of an answer, a null block
   of the body) is answered 500 with the error's message, and a 500 is sent
   for no other reason; nothing is retried: no call is issued twice, so
   there is at most one draft-order create, and none unless the customer
   resolution returned an id. *)
C14_ErrorsAnswered500 ==
  \A r \in Reqs :
    /\ TimesIssued(r, "search") <= 1
    /\ TimesIssued(r, "create") <= 1
    /\ TimesIssued(r, "draft") <= 1
    /\ req[r].thrown # "" =>
         /\ req[r].pc = "done"
         /\ req[r].status = 500
         /\ req[r].error = req[r].thrown
    /\ (req[r].status = 500) <=> (req[r].thrown # "")
    /\ Issued(r, "draft") => Resolved(r)

\* The request failed in the customer create that followed its search,
\* the answer lacking the customer, and issued no draft-order create.
C14_Witness ==
  \E r \in Reqs :
    /\ req[r].calls = <<"search", "create">>
    /\ req[r].thrown = "TypeError"
    /\ req[r].shape = "objects"
    /\ ~Resolved(r)
    /\ req[r].status = 500

\* The place of a handler state in the order received/verifying (idle,
\* left at arrival), resolving-customer (search, create), assembling and
\* submitting (draft), answered (done).
PcRank(pc) ==
  CASE pc = "idle"   -> 0
    [] pc = "search" -> 1
    [] pc = "create" -> 2
    [] pc = "draft"  -> 3
    [] pc = "done"   -> 4

\* The call of the request that is awaiting its answer, if any, is the last
\* one it issued; the calls it issued are in the order search, create,
\* draft; the draft-order create was issued with a customer id.
CallsInSequence(r) ==
  /\ req[r].pc \in { "search", "create", "draft" } =>
       (req[r].calls # <<>> /\ LastCall(r) = req[r].pc)
  /\ req[r].calls \in
       { <<>>, <<"search">>, <<"create">>, <<"search", "create">>,
         <<"search", "draft">>, <<"create", "draft">>, <<"search", "create", "draft">> }
  /\ Issued(r, "draft") => Resolved(r)
  /\ (Issued(r, "search") /\ Issued(r, "create")) => (req[r].result = <<>> /\ req[r].found = 0)

\* A step issues at most one call for a request and never takes its
\* handler back to an earlier state.
CallsStep(r) ==
  /\ PcRank(req'[r].pc) >= PcRank(req[r].pc)
  /\ \/ req'[r].calls = req[r].calls
     \/ \E c \in { "search", "create", "draft" } : req'[r].calls = Append(req[r].calls, c)

(* C16: within a request the admin calls are issued one at a time, in the
   order search, create, draft-order create: the call awaiting its answer
   is the last one issued, the create is issued only after the search has
   answered without a match, the draft-order create only after a customer
   id has been obtained; the handler never returns to an earlier state. *)
C16_SequentialCalls ==
  /\ [](\A r \in Reqs : CallsInSequence(r))
  /\ [][\A r \in Reqs : CallsStep(r)]_vars

\* One request has issued its search, its create and its draft-order
\* create, which is awaiting its answer, while another awaits its search.
C16_Witness ==
  \E r, q \in Reqs :
    /\ req[r].calls = <<"search", "create", "draft">>
    /\ req[r].pc = "draft"
    /\ req[q].pc = "search"

\* The search of the request answered and found no customer.
SearchedNoMatch(r) ==
  /\ Issued(r, "search")
  /\ req[r].pc # "search"
  /\ req[r].found = 0
  /\ ~(req[r].calls = <<"search">> /\ req[r].pc = "done")

\* The records the admin system holds for the email.
RecordsFor(email) == { i \in 1..Len(customers) : customers[i].email = email }

(* C17: two requests with the same email whose searches both found no
   customer both issue a customer create, and once both creates have
   answered the admin system holds two different customer records for
   that email, one per request: nothing in the server ties one request to
   the other. *)
C17_DuplicateCustomerRace ==
  \A r, q \in Reqs :
    (/\ r # q
     /\ req[r].email # ""
     /\ req[r].email = req[q].email
     /\ SearchedNoMatch(r)
     /\ SearchedNoMatch(q)) =>
      /\ Issued(r, "create")
      /\ Issued(q, "create")
      /\ (req[r].created # 0 /\ req[q].created # 0) =>
           /\ req[r].created # req[q].created
           /\ { req[r].created, req[q].created } \subseteq RecordsFor(req[r].email)
           /\ customers[req[r].created].id # customers[req[q].created].id

\* Starting from an admin system without a customer for the email, two
\* requests searched before either create answered, and the admin system
\* now holds two records for the email.
C17_Witness ==
  \E r, q \in Reqs :
    /\ r # q
    /\ req[r].email = "e1"
    /\ req[q].email = "e1"
    /\ SearchedNoMatch(r)
    /\ SearchedNoMatch(q)
    /\ req[r].created # 0
    /\ req[q].created # 0
    /\ RecordsFor("e1") = { req[r].created, req[q].created }
    /\ Cardinality(RecordsFor("e1")) = 2

\* The response of the request has been sent.
Answered(r) == req[r].status # 0

\* The response is one of the four outcomes, and the outcome is the one the
\* course of the request led to: rejected without any call, no line items
\* without any call, succeeded with an order id and nothing thrown, failed
\* with something thrown.
OneOutcome(r) ==
  /\ req[r].status \in { 0, 401, 400, 200, 500 }
  /\ req[r].pc = "done" <=> Answered(r)
  /\ req[r].status = 401 <=> (Arrived(r) /\ req[r].verify = "failed")
  /\ req[r].status = 400 <=>
       (Arrived(r) /\ req[r].verify # "failed" /\ NoLineItems(req[r].line_items))
  /\ req[r].status \in { 401, 400 } => req[r].calls = <<>>
  /\ req[r].status = 200 => (req[r].thrown = "" /\ req[r].reference # 0)
  /\ req[r].status = 500 <=> req[r].thrown # ""

\* Once the response is sent nothing more happens for the request: no
\* second response, no further admin call.
NothingAfterResponse(r) == Answered(r) => req'[r] = req[r]

(* C19: every POST that reaches the handler is answered exactly once, with
   one of 401, 400, 200 and 500, the one its course led to; no admin call is
   issued and nothing changes for the request after its response; and, as
   long as every awaited upstream call is answered in the end, a request
   that has arrived is answered in the end: from some point on every
   request that has arrived has its response (an arrival and a response
   are never undone). *)
C19_OneTerminalOutcome ==
  /\ [](\A r \in Reqs : OneOutcome(r))
  /\ [][\A r \in Reqs : NothingAfterResponse(r)]_vars
  /\ <>[](\A r \in Reqs : Arrived(r) => Answered(r))

\* Two requests are answered, one with 200 after three admin calls and one
\* with 500 after a failed call.
C19_Witness ==
  \E r, q \in Reqs :
    /\ req[r].status = 200
    /\ Len(req[r].calls) = 3
    /\ req[q].status = 500
    /\ req[q].calls # <<>>

(***************************************************************************)
(* Vocabulary of the claims about the payload.                             *)
(***************************************************************************)
\* A variant identifier is present: supplied and not empty.
HasVariant(li) == li.variant_id # Undefined /\ li.variant_id # Text("")

\* A quantity is specified and not falsy.
HasQuantity(li) == li.quantity # Undefined /\ li.quantity # Num(0)

\* The number a supplied identifier or quantity denotes.
AsNumber(v) ==
  IF v[1] = "number" THEN v[2]
  ELSE IF v[2] = "123" THEN 123
  ELSE 2

(* C15: every line item with a variant identifier maps to exactly
   {variant_id, quantity, properties} with that identifier, and every one
   without to exactly {title, price, quantity, properties} with its title
   and price; quantity is the supplied quantity, or 1 when it is
   unspecified or falsy; properties are the supplied ones, or the empty
   list when there are none. *)
C15_LineItemMapping ==
  apc = "done" =>
    /\ Len(aOut.line_items) = Len(aIn.line_items)
    /\ \A i \in 1..Len(aIn.line_items) :
         LET li  == aIn.line_items[i]
             out == aOut.line_items[i]
         IN  /\ HasVariant(li) =>
                  /\ DOMAIN out = { "variant_id", "quantity", "properties" }
                  /\ out.variant_id = Num(AsNumber(li.variant_id))
             /\ ~HasVariant(li) =>
                  /\ DOMAIN out = { "title", "price", "quantity", "properties" }
                  /\ out.title = li.title
                  /\ out.price = li.price
             /\ out.quantity = Num(IF HasQuantity(li) THEN AsNumber(li.quantity) ELSE 1)
             /\ out.properties =
                  IF li.properties = Undefined THEN Array(<<>>) ELSE li.properties

\* variant_id=123, quantity=2 was mapped to {variant_id:123, quantity:2,
\* properties:[]}, and an item with only a title and a price to quantity 1.
C15_Witness ==
  /\ apc = "done"
  /\ Len(aIn.line_items) = 2
  /\ aIn.line_items[1] = OneItem
  /\ aOut.line_items[1] =
       [variant_id |-> Num(123), quantity |-> Num(2), properties |-> Array(<<>>)]
  /\ aIn.line_items[2] =
       [variant_id |-> Undefined, title |-> Text("Oak plank"), price |-> Text("9.99"),
        quantity |-> Undefined, properties |-> Undefined]
  /\ aOut.line_items[2].quantity = Num(1)

\* The value each field of the submission has, by the name of its pair;
\* the installer-needed flag has the value Yes or No.
FieldValue ==
  [rfq_installer_needed    |-> IF aIn.installer_needed THEN "Yes" ELSE "No",
   rfq_shipping_method     |-> aIn.shipping_method,
   rfq_customer_first_name |-> aIn.customer.first_name,
   rfq_customer_last_name  |-> aIn.customer.last_name,
   rfq_customer_email      |-> aIn.customer.email,
   rfq_customer_phone      |-> aIn.customer.phone,
   rfq_customer_company    |-> aIn.customer.company,
   rfq_message             |-> aIn.note,
   rfq_address1            |-> aIn.shipping.address1,
   rfq_address2            |-> aIn.shipping.address2,
   rfq_city                |-> aIn.shipping.city,
   rfq_province            |-> aIn.shipping.province,
   rfq_zip                 |-> aIn.shipping.zip,
   rfq_country             |-> aIn.shipping.country]

\* The texts the note can show as the value of each field.
ShowableValues ==
  [rfq_installer_needed    |-> { "Yes", "No" },
   rfq_shipping_method     |-> { "Freight" },
   rfq_customer_first_name |-> { "Ann" },
   rfq_customer_last_name  |-> { "Lee" },
   rfq_customer_email      |-> { "e1" },
   rfq_customer_phone      |-> { "555-0100" },
   rfq_customer_company    |-> { "Acme" },
   rfq_message             |-> { "call first" },
   rfq_address1            |-> { "1 Main St" },
   rfq_address2            |-> { "Suite 2" },
   rfq_city                |-> { "Austin" },
   rfq_province            |-> { "TX" },
   rfq_zip                 |-> { "78701" },
   rfq_country             |-> { "Canada", "United States" }]

\* The note shows the text as one of its pieces.
NoteShows(t) == \E i \in 1..Len(aOut.note) : aOut.note[i] = t

\* The values note_attributes carries under a name.
AttrValues(name) ==
  { aOut.note_attributes[i].value :
      i \in { j \in 1..Len(aOut.note_attributes) : aOut.note_attributes[j].name = name } }

\* Every field has a pair exactly when its value is not empty, and the
\* pair carries that value.
PairsWhenNonEmpty ==
  \A f \in DOMAIN FieldValue :
    /\ (AttrValues(f) # {}) <=> (FieldValue[f] # "")
    /\ AttrValues(f) \subseteq { FieldValue[f] }

(* C18 as stated: every field has a pair in note_attributes exactly when
   its value is not empty, and a field the note shows with a value has a
   pair with that value, the country of the Ship-to block included. *)
C18_NoteAttributesParallelAsStated ==
  apc = "done" =>
    /\ PairsWhenNonEmpty
    /\ \A f \in DOMAIN ShowableValues : \A t \in ShowableValues[f] :
         NoteShows(t) => AttrValues(f) = { t }

(* C18 amended: every field has a pair in note_attributes exactly when its
   value is not empty, and a field the note shows with a value has a pair
   with that value, except the country: when the submission has an address
   line and no country, the Ship-to block shows the default United States
   and note_attributes has no rfq_country pair. *)
C18_NoteAttributesParallel ==
  apc = "done" =>
    /\ PairsWhenNonEmpty
    /\ \A f \in DOMAIN ShowableValues : \A t \in ShowableValues[f] :
         NoteShows(t) =>
           IF f = "rfq_country" /\ aIn.shipping.country = ""
           THEN t = "United States" /\ aIn.shipping.address1 # "" /\ AttrValues(f) = {}
           ELSE AttrValues(f) = { t }
    /\ (aIn.shipping.address1 # "" /\ aIn.shipping.country = "") => NoteShows("United States")

\* A submission with an address and the country Canada, without company:
\* the note shows Canada, the rfq_country pair carries it, and there is no
\* pair for the company.
C18_Witness ==
  /\ apc = "done"
  /\ aIn.shipping.address1 # ""
  /\ aIn.shipping.country = "Canada"
  /\ NoteShows("Canada")
  /\ AttrValues("rfq_country") = { "Canada" }
  /\ aIn.customer.company = ""
  /\ AttrValues("rfq_customer_company") = {}

(***************************************************************************)
(* Vocabulary of the claims about the routes.                              *)
(***************************************************************************)
\* The response of the exchange, once it has been sent.
Responded ==
  IF http.handler = "post" THEN req[1].pc = "done" ELSE http.pc = "routed"

ResponseStatus == IF http.handler = "post" THEN req[1].status ELSE http.status

ResponseBody == IF http.handler = "post" THEN PostBody(req[1]) ELSE http.body

hPath == rawPathOf(originalUrlOf(http.url))

(* C12: every request to the business route /proxy/create-draft-order whose
   method is neither POST nor OPTIONS is answered with status 405. *)
C12_DisallowedMethod405 ==
  (Responded /\ hPath = BusinessPath /\ http.method \notin { "POST", "OPTIONS" }) =>
    ResponseStatus = 405

\* The canonical message of the request, its digest under the server's
\* secret, and whether a response body holds a given string or the secret.
hMessage == messageOf(hPath, rawQueryOf(originalUrlOf(http.url)))

hDigest == HmacSha256Hex(ServerSecret, hMessage)

BodyHolds(body, text) == \E f \in DOMAIN body : body[f] = text

BodyHoldsSecret(body) ==
  \E f \in DOMAIN body : \E i \in 1..Len(body[f]) : body[f][i][2] = ServerSecret

(* C13: under every configuration, the debug switch included, no response
   body holds the canonical message that is hashed, the computed digest or
   the secret; the message and the digest are written to the log only when
   the debug switch is set. *)
C13_NoDiagnosticsInResponses ==
  /\ Responded =>
       /\ ~BodyHolds(ResponseBody, hMessage)
       /\ ~BodyHolds(ResponseBody, hDigest)
       /\ ~BodyHoldsSecret(ResponseBody)
  /\ (hMessage \in log \/ hDigest \in log) => DEBUG(envDebug)

====
